---- MODULE Spec2Model ----
(***************************************************************************)
(* Timeadair - a terminal Pomodoro timer (src/src/main.rs).                *)
(*                                                                         *)
(* The main thread runs the session loop of main(): prompt_session, then   *)
(* run_timer, one step per statement that touches the terminal, the timer  *)
(* or the control flow.  The Ctrl-C handler registered with                *)
(* ctrlc::set_handler runs on its own thread and interleaves with the main *)
(* thread between any two of these steps.  Every fallible I/O call can     *)
(* fail: in the main thread the `?` operator returns the error to the      *)
(* caller, in the handler the result is discarded (`let _ =`).             *)
(***************************************************************************)
EXTENDS Integers, Sequences, FiniteSets, TLC

VARIABLES
    pc,             \* position of the main thread
    phase,          \* call site of main's loop: "work" or "break"
    arg,            \* run_timer's `duration` argument
    timer,          \* <<>> or <<[duration, elapsed]>>: the live Timer of run_timer
    result,         \* run_timer's `result` (value of the loop expression)
    ev,             \* the event the current poll cycle got ("none" outside it)
    pending,        \* events delivered to the terminal and not yet read
    input,          \* prompt_session's `input` String
    accepted,       \* value returned by prompt_session
    rawMode,        \* terminal: raw input mode enabled
    cursorVisible,  \* terminal: cursor shown
    hpc,            \* position of the Ctrl-C handler thread
    hfail,          \* the handler discarded a failed terminal call
    proc,           \* "running", "exit0" (exit code 0) or "exitErr"
    polls,          \* poll cycles started by the run (0 once main took its outcome)
    frames,         \* frames drawn by the run
    headers,        \* headers written by the run
    frame,          \* <<>> or <<the Timer values the run's last frame shows>>
    goodbyes        \* goodbye lines printed so far

vars == <<pc, phase, arg, timer, result, ev, pending, input, accepted,
          rawMode, cursorVisible, hpc, hfail, proc, polls, frames, headers,
          frame, goodbyes>>

term == <<rawMode, cursorVisible>>
ghost == <<polls, frames, headers, frame>>

(***************************************************************************)
(* Program constants and bounds.                                           *)
(***************************************************************************)
WORK_TIME == 25 * 60
BREAK_TIME == 5 * 60

\* Largest duration a stand-alone run_timer call is started with.
MaxDuration == 4
\* Longest answer typed at a prompt (characters before the line terminator).
MaxLen == 2
\* Most events waiting unread in the terminal at any time.
MaxPending == 2
\* Largest duration of the runs that are followed without the handler
\* (besides WORK_TIME and BREAK_TIME).
MaxPlainDuration == 40

(***************************************************************************)
(* Timer (struct Timer, Timer::new).                                       *)
(***************************************************************************)
Timer_new_StartsAtOne(duration) == [duration |-> duration, elapsed |-> 1]
Timer_new(duration) == [duration |-> duration, elapsed |-> 0]

NoTimer == <<>>
NoFrame == <<>>
TimerLive == timer # NoTimer
elapsed == timer[1].elapsed
duration == timer[1].duration

(***************************************************************************)
(* f32 arithmetic of get_progress and draw_progress_bar.  An f32 value is  *)
(* <<m, e>>, standing for m * 2^e with a 24-bit mantissa                   *)
(* 2^23 <= m < 2^24, or F32Zero.  Every operation rounds its exact result  *)
(* to the nearest such value, ties to the even mantissa.  (Values here are *)
(* non-negative and far from the exponent limits.)                         *)
(***************************************************************************)
F32Zero == <<0, 0>>

\* m / 2^k rounded to the nearest integer, ties to even
RoundShift(m, k) ==
    IF k = 0 THEN m
    ELSE LET q == m \div (2 ^ k)
             r == m % (2 ^ k)
             half == 2 ^ (k - 1)
         IN  IF r > half \/ (r = half /\ q % 2 = 1) THEN q + 1 ELSE q

RECURSIVE ExcessBits(_)
ExcessBits(m) == IF m < 2 ^ 24 THEN 0 ELSE 1 + ExcessBits(m \div 2)

RECURSIVE ShiftUp(_, _)
ShiftUp(m, e) == IF m >= 2 ^ 23 THEN <<m, e>> ELSE ShiftUp(2 * m, e - 1)

\* the f32 nearest to m * 2^e, for 0 <= m < 2^31
F32Round(m, e) ==
    IF m = 0 THEN F32Zero
    ELSE IF m < 2 ^ 23 THEN ShiftUp(m, e)
    ELSE LET k == ExcessBits(m)
             q == RoundShift(m, k)
         IN  IF q = 2 ^ 24 THEN <<2 ^ 23, e + k + 1>> ELSE <<q, e + k>>

\* `n as f32`
F32FromInt(n) == F32Round(n, 0)

RECURSIVE OddPart(_, _)
OddPart(m, e) == IF m % 2 = 0 /\ m > 0 THEN OddPart(m \div 2, e + 1) ELSE <<m, e>>

\* a * b, for b a small integer value (the exact product fits 31 bits)
F32Mul(a, b) ==
    IF a = F32Zero \/ b = F32Zero THEN F32Zero
    ELSE LET bo == OddPart(b[1], b[2])
         IN  F32Round(a[1] * bo[1], a[2] + bo[2])

\* long division: quotient bits until the quotient has 24 of them
RECURSIVE DivBits(_, _, _, _)
DivBits(q, r, b, e) ==
    IF q >= 2 ^ 23 THEN <<q, r, e>>
    ELSE IF 2 * r >= b THEN DivBits(2 * q + 1, 2 * r - b, b, e - 1)
    ELSE DivBits(2 * q, 2 * r, b, e - 1)

\* a / b
F32Div(a, b) ==
    IF a = F32Zero THEN F32Zero
    ELSE LET d == DivBits(a[1] \div b[1], a[1] % b[1], b[1], a[2] - b[2])
             q == d[1]
             r == d[2]
             up == 2 * r > b[1] \/ (2 * r = b[1] /\ q % 2 = 1)
             q1 == IF up THEN q + 1 ELSE q
         IN  IF q1 = 2 ^ 24 THEN <<2 ^ 23, d[3] + 1>> ELSE <<q1, d[3]>>

\* `x as usize`, `x as u32`: truncation toward zero
F32Trunc(a) ==
    IF a = F32Zero THEN 0
    ELSE IF a[2] >= 0 THEN a[1] * (2 ^ a[2])
    ELSE IF a[2] < -23 THEN 0
    ELSE a[1] \div (2 ^ (-a[2]))

(***************************************************************************)
(* Timer::get_progress, Timer::format_time, and the frame that             *)
(* draw_progress_bar prints from them.                                     *)
(***************************************************************************)
\* self.elapsed as f32 / self.duration as f32 * 100.0
get_progress_IntegerDivision(t) ==
    F32Mul(F32FromInt(t.elapsed \div t.duration), F32FromInt(100))
get_progress(t) ==
    F32Mul(F32Div(F32FromInt(t.elapsed), F32FromInt(t.duration)),
           F32FromInt(100))

DigitChar(d) == <<"0", "1", "2", "3", "4", "5", "6", "7", "8", "9">>[d + 1]

RECURSIVE Digits(_)
Digits(n) ==
    IF n < 10 THEN <<DigitChar(n)>>
    ELSE Append(Digits(n \div 10), DigitChar(n % 10))

\* format!("{:02}", n)
Fmt02(n) == IF n < 10 THEN <<"0">> \o Digits(n) ELSE Digits(n)

\* remaining = duration - elapsed; "{:02}:{:02}" of remaining / 60, % 60
format_time(t) ==
    LET remaining == t.duration - t.elapsed
        minutes == remaining \div 60
        seconds == remaining % 60
    IN  Fmt02(minutes) \o <<":">> \o Fmt02(seconds)

\* let width = 50
width == 50

\* filled = (progress * width as f32 / 100.0) as usize
filled_RoundedUp(progress) ==
    LET x == F32Div(F32Mul(progress, F32FromInt(width)), F32FromInt(100))
        n == F32Trunc(x)
    IN  IF F32FromInt(n) = x THEN n ELSE n + 1
filled(progress) ==
    F32Trunc(F32Div(F32Mul(progress, F32FromInt(width)), F32FromInt(100)))

\* what draw_progress_bar(timer.get_progress(), &timer.format_time(), ..)
\* puts on the progress line for Timer t: "=" * filled, "-" * empty, "{}%"
\* and the time
Frame(t) ==
    LET progress == get_progress(t)
    IN  [filled |-> filled(progress),
         empty |-> width - filled(progress),
         pct |-> F32Trunc(progress),
         time |-> format_time(t)]

(***************************************************************************)
(* prompt_session's answer test:                                           *)
(*   input.trim().is_empty() || input.trim().to_lowercase().starts_with('y')*)
(***************************************************************************)
Chars == {"y", "Y", "n", " "}
Whitespace == {" ", "\n"}

RECURSIVE TrimStart(_)
TrimStart(s) ==
    IF s # <<>> /\ Head(s) \in Whitespace THEN TrimStart(Tail(s)) ELSE s

RECURSIVE TrimEnd(_)
TrimEnd(s) ==
    IF s # <<>> /\ s[Len(s)] \in Whitespace
    THEN TrimEnd(SubSeq(s, 1, Len(s) - 1))
    ELSE s

Trim(s) == TrimEnd(TrimStart(s))

LowerChar(c) == IF c = "Y" THEN "y" ELSE c
ToLowercase(s) == [i \in 1..Len(s) |-> LowerChar(s[i])]

StartsWith(s, c) == s # <<>> /\ Head(s) = c

IsYes_CaseSensitive(s) == Trim(s) = <<>> \/ StartsWith(Trim(s), "y")
IsYes(s) == Trim(s) = <<>> \/ StartsWith(ToLowercase(Trim(s)), "y")

\* What the user types before the line terminator.
RECURSIVE SeqsUpTo(_, _)
SeqsUpTo(S, n) ==
    IF n = 0 THEN {<<>>}
    ELSE LET shorter == SeqsUpTo(S, n - 1)
         IN  shorter \cup {Append(s, c) : s \in shorter, c \in S}

Typed == SeqsUpTo(Chars, MaxLen)
\* read_line appends the line with its "\n"; at end of input there is none.
Lines == {Append(t, "\n") : t \in Typed} \cup Typed

(***************************************************************************)
(* Input events of a poll cycle (event::poll + event::read).               *)
(***************************************************************************)
Events == {"timeout", "q", "Q", "r", "R", "x", "Enter", "Resize"}

\* The match on KeyCode in run_timer's loop: "Quit", "Reset" or "None".
Decode_EnterQuits(e) ==
    IF e \in {"q", "Q", "Enter"} THEN "Quit"
    ELSE IF e \in {"r", "R"} THEN "Reset"
    ELSE "None"
Decode_QuitOnly(e) ==
    IF e \in {"q", "Q"} THEN "Quit" ELSE "None"
Decode(e) ==
    IF e \in {"q", "Q"} THEN "Quit"
    ELSE IF e \in {"r", "R"} THEN "Reset"
    ELSE "None"

(***************************************************************************)
(* Initial states.                                                         *)
(***************************************************************************)
Init ==
    /\ pc = "ps_header"
    /\ phase = "work"
    /\ arg = 0
    /\ timer = NoTimer
    /\ result = "None"
    /\ ev = "none"
    /\ pending = <<>>
    /\ input = <<>>
    /\ accepted = FALSE
    /\ rawMode = FALSE
    /\ cursorVisible = TRUE
    /\ hpc = "idle"
    /\ hfail = FALSE
    /\ proc = "running"
    /\ polls = 0
    /\ frames = 0
    /\ headers = 0
    /\ frame = NoFrame
    /\ goodbyes = 0

\* A single call run_timer(d, _) for some d in D.
RunInitWith(D) ==
    /\ pc = "rt_new"
    /\ phase \in {"work", "break"}
    /\ arg \in D
    /\ timer = NoTimer
    /\ result = "None"
    /\ ev = "none"
    /\ pending = <<>>
    /\ input = <<>>
    /\ accepted = TRUE
    /\ rawMode = FALSE
    /\ cursorVisible = TRUE
    /\ hpc = "idle"
    /\ hfail = FALSE
    /\ proc = "running"
    /\ polls = 0
    /\ frames = 0
    /\ headers = 0
    /\ frame = NoFrame
    /\ goodbyes = 0

RunInit == RunInitWith(1..MaxDuration)
PlainInit == RunInitWith((1..MaxPlainDuration) \cup {BREAK_TIME, WORK_TIME})

Running == proc = "running"

\* A failed I/O call in the main thread: `?` returns the Err to the caller
\* (a failed print!/println! panics); nothing else is executed on the way.
\* run_timer's Timer is dropped as the error leaves the function.
Fail ==
    /\ pc' = "error"
    /\ timer' = NoTimer
    /\ UNCHANGED <<pending, phase, arg, result, input, accepted, term, hpc,
                   hfail, proc, ghost, goodbyes>>

(***************************************************************************)
(* prompt_session(session_type), lines 135-144.                            *)
(***************************************************************************)
\* display_header()?
PsHeader ==
    /\ Running /\ pc = "ps_header"
    /\ \/ /\ pc' = "ps_show"
          /\ UNCHANGED <<pending, ev, phase, arg, timer, result, input, accepted, term,
                         hpc, hfail, proc, ghost, goodbyes>>
       \/ Fail /\ UNCHANGED ev

\* execute!(io::stdout(), cursor::Show)?
PsShow ==
    /\ Running /\ pc = "ps_show"
    /\ \/ /\ pc' = "ps_print"
          /\ cursorVisible' = TRUE
          /\ UNCHANGED <<pending, ev, phase, arg, timer, result, input, accepted, rawMode,
                         hpc, hfail, proc, ghost, goodbyes>>
       \/ Fail /\ UNCHANGED ev

\* print!("Start {} session? [Y/n]: "); flush()?; let mut input = String::new()
PsPrint ==
    /\ Running /\ pc = "ps_print"
    /\ \/ /\ pc' = "ps_read"
          /\ input' = <<>>
          /\ UNCHANGED <<pending, ev, phase, arg, timer, result, accepted, term,
                         hpc, hfail, proc, ghost, goodbyes>>
       \/ Fail /\ UNCHANGED ev

\* io::stdin().read_line(&mut input)?
PsRead ==
    /\ Running /\ pc = "ps_read"
    /\ \/ \E line \in Lines :
             /\ input' = input \o line
             /\ pc' = "ps_eval"
             /\ UNCHANGED <<pending, ev, phase, arg, timer, result, accepted, term,
                            hpc, hfail, proc, ghost, goodbyes>>
       \/ Fail /\ UNCHANGED ev

\* Ok(input.trim().is_empty() || ...starts_with('y')); `input` is dropped
PsReturn ==
    /\ Running /\ pc = "ps_eval"
    /\ accepted' = IsYes(input)
    /\ input' = <<>>
    /\ pc' = "ps_ret"
    /\ UNCHANGED <<pending, ev, phase, arg, timer, result, term, hpc, hfail, proc, ghost,
                   goodbyes>>

PromptStep == PsHeader \/ PsShow \/ PsPrint \/ PsRead \/ PsReturn

(***************************************************************************)
(* run_timer(duration, type_name), lines 80-127.                           *)
(***************************************************************************)
\* let mut timer = Timer::new(duration)
RtNew ==
    /\ Running /\ pc = "rt_new"
    /\ timer' = <<Timer_new(arg)>>
    /\ polls' = 0 /\ frames' = 0 /\ headers' = 0 /\ frame' = NoFrame
    /\ pc' = "rt_raw"
    /\ UNCHANGED <<pending, ev, phase, arg, result, input, accepted, term,
                   hpc, hfail, proc, goodbyes>>

\* enable_raw_mode()?
RtRaw ==
    /\ Running /\ pc = "rt_raw"
    /\ \/ /\ rawMode' = TRUE
          /\ pc' = "rt_hide"
          /\ UNCHANGED <<pending, ev, phase, arg, timer, result, input, accepted,
                         cursorVisible, hpc, hfail, proc, ghost, goodbyes>>
       \/ Fail /\ UNCHANGED ev

\* execute!(io::stdout(), cursor::Hide)?
RtHide ==
    /\ Running /\ pc = "rt_hide"
    /\ \/ /\ cursorVisible' = FALSE
          /\ pc' = "rt_draw0"
          /\ UNCHANGED <<pending, ev, phase, arg, timer, result, input, accepted,
                         rawMode, hpc, hfail, proc, ghost, goodbyes>>
       \/ Fail /\ UNCHANGED ev

\* draw_progress_bar(.., first_draw = true)?: header, then the frame
RtDrawFirst ==
    /\ Running /\ pc = "rt_draw0"
    /\ \/ /\ headers' = headers + 1
          /\ frames' = frames + 1
          /\ frame' = <<timer[1]>>
          /\ result' = "None"                \* let result = loop { ..
          /\ pc' = "rt_poll"
          /\ UNCHANGED <<pending, ev, phase, arg, timer, input, accepted,
                         term, hpc, hfail, proc, polls, goodbyes>>
       \/ Fail /\ UNCHANGED ev
       \/ /\ headers' = headers + 1      \* header written, frame fails
          /\ pc' = "error"
          /\ timer' = NoTimer
          /\ UNCHANGED <<pending, ev, phase, arg, result, input, accepted,
                         term, hpc, hfail, proc, polls, frames, frame,
                         goodbyes>>

\* if event::poll(1s)? { if let Event::Key(..) = event::read()? { match code } }
\* The oldest unread event is the one read; with none waiting the poll
\* blocks up to a second and gets the event that arrives, or times out.
RtPoll_Flush ==
    /\ Running /\ pc = "rt_poll"
    /\ \/ \E e \in (IF pending # <<>> THEN {Head(pending)} ELSE Events) :
             /\ polls' = polls + 1
             /\ ev' = e
             /\ pending' = <<>>
             /\ IF Decode(e) = "None"
                THEN /\ pc' = "rt_tick"
                     /\ UNCHANGED result
                ELSE /\ pc' = "rt_show"
                     /\ result' = Decode(e)
             /\ UNCHANGED <<phase, arg, timer, input, accepted, term, hpc,
                            hfail, proc, frames, headers, frame, goodbyes>>
       \/ /\ polls' = polls + 1
          /\ pc' = "error"
          /\ timer' = NoTimer
          /\ UNCHANGED <<pending, ev, phase, arg, result, input, accepted,
                         term, hpc, hfail, proc, frames, headers, frame,
                         goodbyes>>
RtPoll ==
    /\ Running /\ pc = "rt_poll"
    /\ \/ \E e \in (IF pending # <<>> THEN {Head(pending)} ELSE Events) :
             /\ polls' = polls + 1
             /\ ev' = e
             /\ pending' = IF pending # <<>> THEN Tail(pending) ELSE pending
             /\ IF Decode(e) = "None"
                THEN /\ pc' = "rt_tick"
                     /\ UNCHANGED result
                ELSE /\ pc' = "rt_show"           \* break TimerResult::..
                     /\ result' = Decode(e)
             /\ UNCHANGED <<phase, arg, timer, input, accepted, term, hpc,
                            hfail, proc, frames, headers, frame, goodbyes>>
       \/ /\ polls' = polls + 1                  \* poll or read fails
          /\ pc' = "error"
          /\ timer' = NoTimer
          /\ UNCHANGED <<pending, ev, phase, arg, result, input, accepted,
                         term, hpc, hfail, proc, frames, headers, frame,
                         goodbyes>>

\* timer.elapsed += 1
RtTick ==
    /\ Running /\ pc = "rt_tick"
    /\ timer' = <<[timer[1] EXCEPT !.elapsed = @ + 1]>>
    /\ ev' = "none"
    /\ pc' = "rt_check"
    /\ UNCHANGED <<pending, phase, arg, result, input, accepted, term, hpc, hfail,
                   proc, ghost, goodbyes>>

\* if timer.elapsed >= timer.duration { break TimerResult::Completed }
RtCheck_Greater ==
    /\ Running /\ pc = "rt_check"
    /\ IF elapsed > duration
       THEN result' = "Completed" /\ pc' = "rt_show"
       ELSE UNCHANGED result /\ pc' = "rt_draw"
    /\ UNCHANGED <<pending, ev, phase, arg, timer, input, accepted, term, hpc, hfail,
                   proc, ghost, goodbyes>>
RtCheck ==
    /\ Running /\ pc = "rt_check"
    /\ IF elapsed >= duration
       THEN result' = "Completed" /\ pc' = "rt_show"
       ELSE UNCHANGED result /\ pc' = "rt_draw"
    /\ UNCHANGED <<pending, ev, phase, arg, timer, input, accepted, term, hpc, hfail,
                   proc, ghost, goodbyes>>

\* draw_progress_bar(.., first_draw = false)?
RtDraw_WithHeader ==
    /\ Running /\ pc = "rt_draw"
    /\ \/ /\ frames' = frames + 1
          /\ headers' = headers + 1
          /\ frame' = <<timer[1]>>
          /\ pc' = "rt_poll"
          /\ UNCHANGED <<pending, ev, phase, arg, timer, result, input,
                         accepted, term, hpc, hfail, proc, polls, goodbyes>>
       \/ Fail /\ UNCHANGED ev
RtDraw ==
    /\ Running /\ pc = "rt_draw"
    /\ \/ /\ frames' = frames + 1
          /\ frame' = <<timer[1]>>
          /\ pc' = "rt_poll"
          /\ UNCHANGED <<pending, ev, phase, arg, timer, result, input,
                         accepted, term, hpc, hfail, proc, polls, headers,
                         goodbyes>>
       \/ Fail /\ UNCHANGED ev

\* execute!(io::stdout(), cursor::Show)?
RtShow_NoShow ==
    /\ Running /\ pc = "rt_show"
    /\ \/ /\ ev' = "none"
          /\ pc' = "rt_unraw"
          /\ UNCHANGED <<pending, phase, arg, timer, result, input, accepted,
                         term, hpc, hfail, proc, ghost, goodbyes>>
       \/ Fail /\ ev' = "none"
RtShow ==
    /\ Running /\ pc = "rt_show"
    /\ \/ /\ cursorVisible' = TRUE
          /\ ev' = "none"
          /\ pc' = "rt_unraw"
          /\ UNCHANGED <<pending, phase, arg, timer, result, input, accepted,
                         rawMode, hpc, hfail, proc, ghost, goodbyes>>
       \/ Fail /\ ev' = "none"

\* disable_raw_mode()?
RtUnraw_Skip ==
    /\ Running /\ pc = "rt_unraw"
    /\ pc' = "rt_msg"
    /\ UNCHANGED <<pending, ev, phase, arg, timer, result, input, accepted, term,
                   hpc, hfail, proc, ghost, goodbyes>>
RtUnraw ==
    /\ Running /\ pc = "rt_unraw"
    /\ \/ /\ rawMode' = FALSE
          /\ pc' = "rt_msg"
          /\ UNCHANGED <<pending, ev, phase, arg, timer, result, input, accepted,
                         cursorVisible, hpc, hfail, proc, ghost, goodbyes>>
       \/ Fail /\ UNCHANGED ev

\* match result: Quit | Reset => display_header()?; Completed => bell, flush()?
RtMsg ==
    /\ Running /\ pc = "rt_msg"
    /\ \/ /\ IF result \in {"Quit", "Reset"}
             THEN headers' = headers + 1 /\ pc' = "rt_println"
             ELSE UNCHANGED headers /\ pc' = "rt_ret"
          /\ UNCHANGED <<pending, ev, phase, arg, timer, result, input,
                         accepted, term, hpc, hfail, proc, polls, frames,
                         frame, goodbyes>>
       \/ Fail /\ UNCHANGED ev

\* println!("Pomodoro session ended. ..") or println!("Timer reset.")
RtPrintln ==
    /\ Running /\ pc = "rt_println"
    /\ \/ /\ goodbyes' = IF result = "Quit" THEN goodbyes + 1 ELSE goodbyes
          /\ pc' = "rt_ret"
          /\ UNCHANGED <<pending, ev, phase, arg, timer, result, input, accepted, term,
                         hpc, hfail, proc, ghost>>
       \/ Fail /\ UNCHANGED ev

\* Ok(result): the Timer is dropped, the caller gets the outcome
RtReturn ==
    /\ Running /\ pc = "rt_ret"
    /\ timer' = NoTimer
    /\ pc' = "returned"
    /\ UNCHANGED <<pending, ev, phase, arg, result, input, accepted, term, hpc, hfail,
                   proc, ghost, goodbyes>>

\* A key or another event reaches the terminal while the run is not reading:
\* it waits, behind the events already waiting, for a later event::read.
\* One waiting key of each kind the match of run_timer tells apart.
TypeAhead == {"q", "r", "x"}
InLoopPcs == {"rt_hide", "rt_draw0", "rt_poll", "rt_tick", "rt_check",
              "rt_draw"}
KeyPress ==
    /\ Running /\ pc \in InLoopPcs
    /\ Len(pending) < MaxPending
    /\ \E e \in TypeAhead : pending' = Append(pending, e)
    /\ UNCHANGED <<pc, phase, arg, timer, result, ev, input, accepted, term,
                   hpc, hfail, proc, ghost, goodbyes>>

RunTimerStep ==
    \/ RtNew \/ RtRaw \/ RtHide \/ RtDrawFirst \/ RtPoll \/ RtTick
    \/ RtCheck \/ RtDraw \/ RtShow \/ RtUnraw \/ RtMsg \/ RtPrintln
    \/ RtReturn

(***************************************************************************)
(* main's session loop, lines 155-181.                                     *)
(***************************************************************************)
\* loop { if !prompt_session("work")? { goodbye; break }
\*        match run_timer(WORK_TIME, "Work") ..
MainAfterWorkPrompt ==
    /\ Running /\ pc = "ps_ret" /\ phase = "work"
    /\ IF ~accepted
       THEN pc' = "bye_header" /\ UNCHANGED arg
       ELSE arg' = WORK_TIME /\ pc' = "rt_new"
    /\ UNCHANGED <<pending, ev, phase, timer, result, input, accepted, term, hpc, hfail,
                   proc, ghost, goodbyes>>

\* display_header()?  (work prompt declined)
MainByeHeader ==
    /\ Running /\ pc = "bye_header"
    /\ \/ /\ pc' = "bye_print"
          /\ UNCHANGED <<pending, ev, phase, arg, timer, result, input, accepted, term,
                         hpc, hfail, proc, ghost, goodbyes>>
       \/ Fail /\ UNCHANGED ev

\* println!("Pomodoro session ended. See you next time!"); break
MainByePrint ==
    /\ Running /\ pc = "bye_print"
    /\ \/ /\ goodbyes' = goodbyes + 1
          /\ pc' = "m_show"
          /\ UNCHANGED <<pending, ev, phase, arg, timer, result, input, accepted, term,
                         hpc, hfail, proc, ghost>>
       \/ Fail /\ UNCHANGED ev

\* match run_timer(WORK_TIME, "Work")? { Completed => {}, Quit => break,
\*                                       Reset => continue }
\* Completed falls through to prompt_session("break"); `continue` restarts
\* the loop at prompt_session("work"); `break` leaves it.
MainAfterWork_ResetToBreak ==
    /\ Running /\ pc = "returned" /\ phase = "work"
    /\ \/ result \in {"Completed", "Reset"} /\ phase' = "break"
                                            /\ pc' = "ps_header"
       \/ result = "Quit" /\ pc' = "m_show" /\ UNCHANGED phase
    /\ polls' = 0 /\ frames' = 0 /\ headers' = 0 /\ frame' = NoFrame
    /\ UNCHANGED <<pending, arg, timer, result, ev, input, accepted, term, hpc,
                   hfail, proc, goodbyes>>
MainAfterWork ==
    /\ Running /\ pc = "returned" /\ phase = "work"
    /\ \/ result = "Completed" /\ phase' = "break" /\ pc' = "ps_header"
       \/ result = "Quit" /\ pc' = "m_show" /\ UNCHANGED phase
       \/ result = "Reset" /\ pc' = "ps_header" /\ UNCHANGED phase
    /\ polls' = 0 /\ frames' = 0 /\ headers' = 0 /\ frame' = NoFrame
    /\ UNCHANGED <<pending, arg, timer, result, ev, input, accepted, term, hpc,
                   hfail, proc, goodbyes>>

\* if prompt_session("break")? { match run_timer(BREAK_TIME, "Break") .. }
\* A declined break prompt ends the loop body: back to prompt_session("work").
MainAfterBreakPrompt_AlwaysRun ==
    /\ Running /\ pc = "ps_ret" /\ phase = "break"
    /\ arg' = BREAK_TIME /\ pc' = "rt_new"
    /\ UNCHANGED <<pending, phase, timer, result, ev, input, accepted, term, hpc,
                   hfail, proc, ghost, goodbyes>>
MainAfterBreakPrompt ==
    /\ Running /\ pc = "ps_ret" /\ phase = "break"
    /\ IF accepted
       THEN arg' = BREAK_TIME /\ pc' = "rt_new" /\ UNCHANGED phase
       ELSE pc' = "ps_header" /\ phase' = "work" /\ UNCHANGED arg
    /\ UNCHANGED <<pending, timer, result, ev, input, accepted, term, hpc,
                   hfail, proc, ghost, goodbyes>>

\* match run_timer(BREAK_TIME, "Break")? { Completed => {}, Quit => break,
\*                                         Reset => continue }
MainAfterBreak_ResetToBreakPrompt ==
    /\ Running /\ pc = "returned" /\ phase = "break"
    /\ \/ result = "Completed" /\ pc' = "ps_header" /\ phase' = "work"
       \/ result = "Quit" /\ pc' = "m_show" /\ UNCHANGED phase
       \/ result = "Reset" /\ pc' = "ps_header" /\ UNCHANGED phase
    /\ polls' = 0 /\ frames' = 0 /\ headers' = 0 /\ frame' = NoFrame
    /\ UNCHANGED <<pending, arg, timer, result, ev, input, accepted, term, hpc,
                   hfail, proc, goodbyes>>
MainAfterBreak ==
    /\ Running /\ pc = "returned" /\ phase = "break"
    /\ \/ result \in {"Completed", "Reset"} /\ pc' = "ps_header"
                                            /\ phase' = "work"
       \/ result = "Quit" /\ pc' = "m_show" /\ UNCHANGED phase
    /\ polls' = 0 /\ frames' = 0 /\ headers' = 0 /\ frame' = NoFrame
    /\ UNCHANGED <<pending, arg, timer, result, ev, input, accepted, term, hpc,
                   hfail, proc, goodbyes>>

\* execute!(io::stdout(), cursor::Show)?  (after the loop)
MainShow ==
    /\ Running /\ pc = "m_show"
    /\ \/ /\ cursorVisible' = TRUE
          /\ pc' = "m_ret"
          /\ UNCHANGED <<pending, ev, phase, arg, timer, result, input, accepted,
                         rawMode, hpc, hfail, proc, ghost, goodbyes>>
       \/ Fail /\ UNCHANGED ev

\* Ok(()): main returns, the process exits with code 0
MainReturn ==
    /\ Running /\ pc = "m_ret"
    /\ pc' = "m_done"
    /\ proc' = "exit0"
    /\ UNCHANGED <<pending, ev, phase, arg, timer, result, input, accepted, term, hpc,
                   hfail, ghost, goodbyes>>

\* An Err reaches main's `?`: main returns it, the process exits non-zero
MainError ==
    /\ Running /\ pc = "error"
    /\ pc' = "m_failed"
    /\ proc' = "exitErr"
    /\ UNCHANGED <<pending, ev, phase, arg, timer, result, input, accepted, term, hpc,
                   hfail, ghost, goodbyes>>

MainStep ==
    \/ MainAfterWorkPrompt \/ MainByeHeader \/ MainByePrint
    \/ MainAfterWork \/ MainAfterBreakPrompt \/ MainAfterBreak
    \/ MainShow \/ MainReturn \/ MainError

(***************************************************************************)
(* The Ctrl-C handler, lines 147-153, on the signal-handling thread.       *)
(***************************************************************************)
\* An interrupt signal arrives: the handler closure starts.
Interrupt ==
    /\ Running /\ hpc = "idle"
    /\ hpc' = "h_show"
    /\ UNCHANGED <<pending, ev, pc, phase, arg, timer, result, input, accepted, term,
                   hfail, proc, ghost, goodbyes>>

\* let _ = execute!(io::stdout(), cursor::Show)
HShow ==
    /\ Running /\ hpc = "h_show"
    /\ hpc' = "h_unraw"
    /\ \/ cursorVisible' = TRUE /\ UNCHANGED hfail
       \/ hfail' = TRUE /\ UNCHANGED cursorVisible
    /\ UNCHANGED <<pending, ev, pc, phase, arg, timer, result, input, accepted, rawMode,
                   proc, ghost, goodbyes>>

\* let _ = disable_raw_mode()
HUnraw ==
    /\ Running /\ hpc = "h_unraw"
    /\ hpc' = "h_header"
    /\ \/ rawMode' = FALSE /\ UNCHANGED hfail
       \/ hfail' = TRUE /\ UNCHANGED rawMode
    /\ UNCHANGED <<pending, ev, pc, phase, arg, timer, result, input, accepted,
                   cursorVisible, proc, ghost, goodbyes>>

\* let _ = display_header()  (its println! panics when stdout fails)
HHeader ==
    /\ Running /\ hpc = "h_header"
    /\ \/ hpc' = "h_print" /\ UNCHANGED hfail
       \/ hpc' = "h_print" /\ hfail' = TRUE
       \/ hpc' = "h_dead" /\ hfail' = TRUE
    /\ UNCHANGED <<pending, ev, pc, phase, arg, timer, result, input, accepted, term,
                   proc, ghost, goodbyes>>

\* println!("Pomodoro session ended. See you next time!")
HPrint ==
    /\ Running /\ hpc = "h_print"
    /\ \/ hpc' = "h_exit" /\ goodbyes' = goodbyes + 1 /\ UNCHANGED hfail
       \/ hpc' = "h_dead" /\ hfail' = TRUE /\ UNCHANGED goodbyes
    /\ UNCHANGED <<pending, ev, pc, phase, arg, timer, result, input, accepted, term,
                   proc, ghost>>

\* std::process::exit(0)
HExit ==
    /\ Running /\ hpc = "h_exit"
    /\ hpc' = "h_exited"
    /\ proc' = "exit0"
    /\ UNCHANGED <<pending, ev, pc, phase, arg, timer, result, input, accepted, term,
                   hfail, ghost, goodbyes>>

HandlerStep == Interrupt \/ HShow \/ HUnraw \/ HHeader \/ HPrint \/ HExit

(***************************************************************************)
(* Specifications.                                                         *)
(***************************************************************************)
Next == MainStep \/ PromptStep \/ RunTimerStep \/ HandlerStep

\* The whole program, for a user who presses keys only while a poll waits.
Spec == Init /\ [][Next]_vars

\* One call of run_timer with any duration in 1..MaxDuration, the handler
\* running beside it, keys pressed at any moment.
RunNext == RunTimerStep \/ HandlerStep \/ KeyPress
RunSpec == RunInit /\ [][RunNext]_vars

\* The same call with keys pressed only while a poll waits.  The main thread
\* is scheduled until it blocks or ends; event::poll returns after at most
\* one second.
LiveNext == RunTimerStep \/ HandlerStep
RunLive == RunInit /\ [][LiveNext]_vars /\ WF_vars(RunTimerStep)

\* One call of run_timer alone, for the durations of PlainInit.
PlainSpec == PlainInit /\ [][RunTimerStep]_vars

(***************************************************************************)
(* Properties.                                                             *)
(***************************************************************************)
Restored == cursorVisible /\ ~rawMode
Commands == {"q", "Q", "r", "R"}
\* run_timer has left its loop and has not yet handed over its outcome
AfterLoop == pc \in {"rt_show", "rt_unraw", "rt_msg", "rt_println", "rt_ret"}

\* C1: whenever run_timer returns an outcome (Completed, Quit or Reset), the
\* cursor is visible and raw input mode is off, whatever the duration and
\* the key events of the run.
C1_RestoredOnReturn ==
    (pc \in {"rt_ret", "returned"} /\ result \in {"Completed", "Quit", "Reset"})
        => Restored

\* A run that saw several poll cycles and was then reset has returned.
C1_Witness ==
    pc = "returned" /\ result = "Reset" /\ polls > 2 /\ hpc = "idle"

\* C2: once the interrupt handler has terminated the process (none of its
\* terminal calls having failed), the cursor is visible and raw input mode
\* is off, for every interleaving with the main thread.
C2_InterruptRestores ==
    (hpc = "h_exited" /\ ~hfail) => Restored

\* C3: when an I/O operation of a session run fails and the error is
\* returned to the caller, the cursor is visible and raw input mode is off.
C3_ErrorReleasesTerminal ==
    pc = "error" => Restored

\* C4: a poll cycle that reads q/Q/r/R leaves the loop with Quit or Reset,
\* never reaching the tick; at that exit elapsed and the number of frames
\* are what the earlier cycles left (elapsed = cycles - 1, frames = cycles,
\* the first frame being the initial draw), and the exit step itself changes
\* neither.  A Quit read in the first cycle leaves elapsed at 0.
C4_InputBeforeTickBeforeRedraw ==
    /\ [](pc = "rt_tick" => ev \notin Commands)
    /\ []((pc = "rt_show" /\ ev \in {"q", "Q"}) => result = "Quit")
    /\ []((pc = "rt_show" /\ ev \in {"r", "R"}) => result = "Reset")
    /\ []((AfterLoop /\ TimerLive /\ result \in {"Quit", "Reset"})
            => (elapsed = polls - 1 /\ frames = polls))
    /\ []((AfterLoop /\ TimerLive /\ result = "Quit" /\ polls = 1)
            => elapsed = 0)
    /\ [][(pc = "rt_poll" /\ pc' = "rt_show")
            => (timer' = timer /\ frames' = frames
                /\ result' \in {"Quit", "Reset"})]_vars

\* Quit was read in the very first poll cycle.
C4_Witness ==
    pc = "rt_show" /\ ev = "Q" /\ polls = 1 /\ result = "Quit"
    /\ TimerLive /\ elapsed = 0 /\ frames = 1

\* C5: a run in which no recognized command is read and no I/O operation
\* fails ends with Completed; Completed is the outcome exactly when
\* `duration` poll cycles have run, with elapsed = duration.
C5_CompletedAfterDurationCycles ==
    /\ [](result = "Completed" => polls = arg)
    /\ []((result = "Completed" /\ TimerLive)
            => (elapsed = duration /\ duration = arg))
    /\ []((pc = "rt_check" /\ elapsed < duration) => polls < arg)
    /\ <>(\/ pc = "returned" /\ result = "Completed"
          \/ result \in {"Quit", "Reset"}
          \/ pc = "error"
          \/ proc # "running")

\* The longest run has completed.
C5_Witness ==
    pc = "returned" /\ result = "Completed" /\ arg = MaxDuration
    /\ polls = MaxDuration

\* C6: while a run's timer lives, 0 <= elapsed <= duration, and duration is
\* the value the run was started with and never changes.
C6_ElapsedWithinDuration ==
    /\ [](TimerLive => (0 <= elapsed /\ elapsed <= duration
                         /\ duration = arg))
    /\ [][(TimerLive /\ TimerLive') => duration' = duration]_vars

\* The timer has just been ticked up to its duration.
C6_Witness ==
    pc = "rt_check" /\ TimerLive /\ elapsed = duration /\ duration > 1

\* Positions of main after its loop, and of a main that failed.
ExitPcs == {"m_show", "m_ret", "m_done"}
EndPcs == ExitPcs \cup {"error", "m_failed"}
PromptPcs == {"ps_header", "ps_show", "ps_print", "ps_read", "ps_eval",
              "ps_ret"}

\* Once main has left its loop it only shows the cursor and returns: the
\* process exits with code 0, or with an error if that last call fails.
LeavesLoopForGood ==
    /\ [][(pc \in EndPcs) => (pc' \in EndPcs /\ timer' = NoTimer)]_vars
    /\ [][(pc = "m_show" /\ pc' # pc) => pc' \in {"m_ret", "error"}]_vars
    /\ [][(pc = "m_ret" /\ pc' # pc)
            => (pc' = "m_done" /\ proc' = "exit0")]_vars

\* C7: after a work run, Completed leads to the break prompt, Quit leaves
\* the loop and ends the program, Reset leads straight to the work prompt.
C7_AfterWorkRun ==
    /\ []((pc = "returned") => result \in {"Completed", "Quit", "Reset"})
    /\ [][(pc = "returned" /\ phase = "work" /\ pc' # pc)
            => CASE result = "Completed" ->
                        pc' = "ps_header" /\ phase' = "break"
                 [] result = "Quit" -> pc' = "m_show"
                 [] result = "Reset" ->
                        pc' = "ps_header" /\ phase' = "work"]_vars
    /\ LeavesLoopForGood

\* A completed work run has led to the break prompt.
C7_Witness ==
    pc = "ps_header" /\ phase = "break" /\ result = "Completed"
    /\ arg = WORK_TIME

\* C8: after a break run, Completed and Reset both lead to the work prompt
\* (never to the break prompt), Quit leaves the loop and ends the program.
C8_AfterBreakRun ==
    /\ [][(pc = "returned" /\ phase = "break" /\ pc' # pc)
            => CASE result \in {"Completed", "Reset"} ->
                        pc' = "ps_header" /\ phase' = "work"
                 [] result = "Quit" -> pc' = "m_show"]_vars
    /\ [][(pc \in ExitPcs) => pc' \in EndPcs]_vars
    /\ [][(pc = "m_ret" /\ pc' # pc) => proc' = "exit0"]_vars

\* A reset break run has led back to the work prompt.
C8_Witness ==
    pc = "ps_header" /\ phase = "work" /\ result = "Reset"
    /\ arg = BREAK_TIME

\* C9: the break prompt is reached only after a completed work run; when it
\* is declined the next step of main starts the work prompt, with no timer
\* constructed, raw mode untouched and the process still running.
C9_DeclinedBreak ==
    /\ []((pc \in PromptPcs /\ phase = "break")
            => (result = "Completed" /\ arg = WORK_TIME))
    /\ [](pc \in PromptPcs => timer = NoTimer)
    /\ [][(pc = "ps_ret" /\ phase = "break" /\ ~accepted /\ pc' # pc)
            => (/\ pc' = "ps_header" /\ phase' = "work"
                /\ timer' = NoTimer /\ arg' = arg
                /\ rawMode' = rawMode
                /\ proc' = "running")]_vars

\* The work prompt reached from a declined break prompt.
C9_Witness ==
    pc = "ps_header" /\ phase = "work" /\ result = "Completed"
    /\ arg = WORK_TIME /\ ~accepted

\* What the user typed: the line read without its terminator.
Answer(line) ==
    IF line # <<>> /\ line[Len(line)] = "\n"
    THEN SubSeq(line, 1, Len(line) - 1)
    ELSE line

\* Declining a work prompt leads to the goodbye message and the end of the
\* program, with no timer and no raw mode on the way; accepting it starts
\* run_timer(WORK_TIME).
WorkPromptFlow ==
    /\ [][(pc = "ps_ret" /\ phase = "work" /\ pc' # pc)
            => IF accepted
               THEN pc' = "rt_new" /\ arg' = WORK_TIME
               ELSE pc' = "bye_header"]_vars
    /\ [][(pc = "bye_header" /\ pc' # pc)
            => pc' \in {"bye_print", "error"}]_vars
    /\ [][(pc = "bye_print" /\ pc' # pc)
            => \/ pc' = "m_show" /\ goodbyes' = goodbyes + 1
               \/ pc' = "error"]_vars
    /\ [](pc \in {"bye_header", "bye_print"} \cup EndPcs
            => (timer = NoTimer /\ (pc \notin {"error", "m_failed"}
                                    => ~rawMode)))
    /\ LeavesLoopForGood

\* C10 as stated: the work prompt is accepted exactly when the typed answer
\* is empty or starts with y/Y.
C10_AnswerAsTyped ==
    /\ WorkPromptFlow
    /\ [][(pc = "ps_eval" /\ phase = "work" /\ pc' = "ps_ret")
            => accepted' = (\/ Answer(input) = <<>>
                            \/ Head(Answer(input)) \in {"y", "Y"})]_vars

\* C10, amended: the work prompt is accepted exactly when the answer, with
\* leading and trailing whitespace removed, is empty or starts with y/Y.
C10_AnswerTrimmed ==
    /\ WorkPromptFlow
    /\ [][(pc = "ps_eval" /\ phase = "work" /\ pc' = "ps_ret")
            => accepted' = (LET t == Trim(input)
                            IN  t = <<>> \/ Head(t) \in {"y", "Y"})]_vars

\* A declined work prompt has printed the goodbye and ended the program.
C10_Witness ==
    pc = "m_done" /\ proc = "exit0" /\ ~accepted /\ goodbyes = 1
    /\ result = "None"

\* The position in the waiting events of the oldest quit/reset keypress.
FirstCommand ==
    CHOOSE i \in 1..Len(pending) :
        /\ pending[i] \in Commands
        /\ \A j \in 1..(i - 1) : pending[j] \notin Commands

C12_NoCommandTicksOnce ==
    /\ [][(pc = "rt_poll" /\ pc' # pc /\ ev' \in Events \ Commands)
            => (pc' = "rt_tick" /\ timer' = timer /\ result' = result)]_vars
    /\ [][(pc = "rt_poll" /\ pc' = "error") => ev' \notin Events]_vars
    /\ [][(pc = "rt_tick" /\ pc' # pc)
            => (/\ ev \in Events \ Commands
                /\ TimerLive' /\ elapsed' = elapsed + 1
                /\ duration' = duration
                /\ pc' = "rt_check" /\ result' = result)]_vars
    /\ [][(pc = "rt_check" /\ pc' # pc)
            => (/\ timer' = timer
                /\ IF elapsed >= duration
                   THEN pc' = "rt_show" /\ result' = "Completed"
                   ELSE pc' \in {"rt_draw", "error"})]_vars
    /\ [][(pc = "rt_draw" /\ pc' # pc)
            => (pc' = "error" \/ (pc' = "rt_poll" /\ timer' = timer))]_vars

\* A second cycle got a non-key event and is about to tick; the cycle
\* before it ticked once.
C12_Witness ==
    pc = "rt_tick" /\ ev = "Resize" /\ polls = 2 /\ TimerLive /\ elapsed = 1

\* The program counters of run_timer.
RunPcs == {"rt_new", "rt_raw", "rt_hide", "rt_draw0", "rt_poll", "rt_tick",
           "rt_check", "rt_draw", "rt_show", "rt_unraw", "rt_msg",
           "rt_println", "rt_ret"}

\* C13: every run constructs a fresh timer with elapsed = 0 for the duration
\* it was called with, whatever the earlier run's outcome; between runs no
\* timer exists, so no elapsed time is carried over.
C13_FreshTimer ==
    /\ [][(pc = "rt_new" /\ pc' # pc)
            => (/\ timer = NoTimer
                /\ TimerLive' /\ elapsed' = 0 /\ duration' = arg
                /\ pc' = "rt_raw")]_vars
    /\ []((pc \in {"rt_raw", "rt_hide", "rt_draw0"} \/ (pc = "rt_poll" /\ polls = 0))
            => (TimerLive /\ elapsed = 0))
    /\ [](pc \notin RunPcs => timer = NoTimer)

\* The work run after a reset work run has its new timer, at zero.
C13_Witness ==
    pc = "rt_raw" /\ phase = "work" /\ result = "Reset" /\ TimerLive
    /\ elapsed = 0 /\ duration = WORK_TIME

\* C14: a timer ticked exactly `duration` times reports progress 100.0 and
\* remaining time "00:00"; with duration 1500 and elapsed 750 it reports
\* progress 50.0 and "12:30".
C14_ProgressAndRemaining ==
    /\ (TimerLive /\ elapsed = duration)
         => (/\ get_progress(timer[1]) = <<100 * 2 ^ 17, -17>>
             /\ F32Trunc(get_progress(timer[1])) = 100
             /\ format_time(timer[1]) = <<"0", "0", ":", "0", "0">>)
    /\ (TimerLive /\ duration = 1500 /\ elapsed = 750)
         => (/\ get_progress(timer[1]) = <<50 * 2 ^ 18, -18>>
             /\ F32Trunc(get_progress(timer[1])) = 50
             /\ format_time(timer[1]) = <<"1", "2", ":", "3", "0">>)

\* A work-length timer has been ticked 1500 times, after passing 750.
C14_Witness ==
    pc = "rt_check" /\ TimerLive /\ duration = 1500 /\ elapsed = 1500
    /\ polls = 1500

\* C15 as stated: from the start of run_timer to its return the header is
\* written exactly once, by the initial draw.
C15_HeaderOnce ==
    /\ [](pc \in RunPcs \ {"rt_new", "rt_raw", "rt_hide", "rt_draw0"}
            => headers = 1)
    /\ [][(pc \in RunPcs /\ headers' # headers) => pc = "rt_draw0"]_vars

\* C15, amended: the initial draw writes the header once; no per-tick
\* redraw writes it, so it has been written once all through the loop and
\* on to the return of a completed run; a run that ends by quit or reset
\* writes it a second time after the loop, before its message.
C15_HeaderOncePerLoop ==
    /\ [](pc \in {"rt_new", "rt_raw", "rt_hide", "rt_draw0"} => headers = 0)
    /\ [](pc \in {"rt_poll", "rt_tick", "rt_check", "rt_draw", "rt_show",
                  "rt_unraw", "rt_msg"} => headers = 1)
    /\ []((pc \in {"rt_println", "rt_ret", "returned"})
            => headers = (IF result = "Completed" THEN 1 ELSE 2))
    /\ [][(headers' # headers)
            => (/\ headers' = headers + 1
                /\ \/ pc = "rt_draw0"
                   \/ pc = "rt_msg" /\ result \in {"Quit", "Reset"})]_vars
    /\ [][(pc = "rt_draw" /\ pc' = "rt_poll")
            => (frames' = frames + 1 /\ headers' = headers)]_vars

\* A per-tick redraw has happened and the header has been written once.
C15_Witness ==
    pc = "rt_poll" /\ frames = 3 /\ headers = 1 /\ polls = 2

\* C16: after the loop the cursor is shown and raw mode left before anything
\* else is written: the header rewrite, the goodbye, the reset message and
\* the bell come from steps taken with the cursor visible and raw mode off,
\* and the two restoring steps write nothing.
C16_RestoredBeforeOutput ==
    /\ [](pc \in {"rt_msg", "rt_println", "rt_ret"} => Restored)
    /\ [][(pc \in {"rt_show", "rt_unraw"} /\ pc' # pc)
            => (/\ headers' = headers /\ goodbyes' = goodbyes
                /\ frames' = frames
                /\ pc' \in {"rt_unraw", "rt_msg", "error"})]_vars
    /\ [][(pc \in RunPcs /\ pc' # pc /\ result \in {"Quit", "Reset"}
           /\ (headers' # headers \/ goodbyes' # goodbyes))
            => (Restored /\ pc \in {"rt_msg", "rt_println"})]_vars
    /\ [][(pc = "rt_msg" /\ result = "Completed" /\ pc' # pc)
            => (Restored /\ pc' \in {"rt_ret", "error"})]_vars

\* A quit run is about to print the goodbye, the header rewritten.
C16_Witness ==
    pc = "rt_println" /\ result = "Quit" /\ headers = 2 /\ Restored
    /\ hpc = "idle"

\* C17: at every value of elapsed from 0 (the first draw) to duration (each
\* value a tick produces) the bar has filled = floor(progress * W / 100),
\* which is floor(elapsed * W / duration), with 0 <= filled <= W and
\* filled + empty = W; a tick never lowers filled.
C17_FilledCells ==
    /\ []((TimerLive /\ pc \in {"rt_draw0", "rt_check"})
            => LET f == Frame(timer[1])
               IN  /\ f.filled = (elapsed * width) \div duration
                   /\ 0 <= f.filled /\ f.filled <= width
                   /\ 0 <= f.empty
                   /\ f.filled + f.empty = width)
    /\ [][(pc = "rt_tick" /\ pc' # pc)
            => (/\ elapsed' = elapsed + 1 /\ duration' = duration
                /\ Frame(timer'[1]).filled >= Frame(timer[1]).filled)]_vars

\* A break-length timer drawn at half time: 25 cells filled, 25 empty.
C17_Witness ==
    /\ pc = "rt_poll" /\ frame # NoFrame /\ frame[1] = timer[1]
    /\ duration = BREAK_TIME /\ elapsed = 150
    /\ Frame(frame[1]).filled = 25 /\ Frame(frame[1]).empty = 25

\* C18: whenever the program waits for the answer to a work or break
\* prompt, raw mode is off and the cursor is visible, whatever runs and
\* outcomes came before.
C18_PromptTerminal ==
    pc = "ps_read" => (~rawMode /\ cursorVisible)

\* The work prompt waits for its answer after a completed work run and a
\* declined break.
C18_Witness ==
    pc = "ps_read" /\ phase = "work" /\ arg = WORK_TIME
    /\ result = "Completed" /\ ~accepted /\ ~rawMode /\ cursorVisible

\* C19: when the process has ended voluntarily (main returned Ok, or the
\* interrupt handler exited, no write having failed) the goodbye message has
\* been printed exactly once.
C19_GoodbyeOnce ==
    (proc = "exit0" /\ ~hfail) => goodbyes = 1

\* C20: every frame of a run is drawn with elapsed < duration, so the
\* remaining time it shows is at least one second, and the frame just drawn
\* (first or per-tick) never shows a full bar, 100% or "00:00".
C20_NoFullFrame ==
    /\ (pc \in {"rt_draw0", "rt_draw"}) => (TimerLive /\ elapsed < duration)
    /\ (pc = "rt_poll" /\ frame # NoFrame)
         => (/\ frame[1] = timer[1]
             /\ frame[1].elapsed < frame[1].duration
             /\ frame[1].duration - frame[1].elapsed >= 1
             /\ LET f == Frame(frame[1])
                IN  /\ f.filled < width
                    /\ f.empty >= 1
                    /\ f.pct < 100
                    /\ f.time # <<"0", "0", ":", "0", "0">>)

\* The last frame of a work run has been drawn: it shows one second left.
C20_Witness ==
    /\ pc = "rt_poll" /\ duration = WORK_TIME
    /\ frame # NoFrame /\ frame[1].elapsed = WORK_TIME - 1
    /\ Frame(frame[1]).time = <<"0", "0", ":", "0", "1">>

====
